---- MODULE Spec2Model ----
(***************************************************************************)
(* Model of sidvishnoi/subresources: the async generator getAllSubResources *)
(* in its network-observed form (src/src/network.ts) and its DOM-query form *)
(* (src/index.ts), with the classifier mapResourceType.                     *)
(*                                                                         *)
(* Strings are sequences of one-character strings, so that startsWith,      *)
(* includes, the favicon pattern, srcset splitting and the CSS url("...")   *)
(* pattern are computed on the characters as the code computes them.        *)
(***************************************************************************)
EXTENDS Integers, Sequences, FiniteSets, TLC

VARIABLES
    variant,      \* "network" (src/src/network.ts), "dom" (src/index.ts), "map" (classifier alone)
    optLinks,     \* options.links
    pc,           \* position of the generator body
    launched,     \* puppeteer.launch() has resolved with a browser
    observer,     \* page.on("response", ...) has been registered
    navStarted,   \* page.goto() has been called
    seen,         \* const seen = new Set<string>()
    queue,        \* const queue: Resource[]
    qi,           \* index of the array iterator of `for (const resource of queue)`
    links,        \* const links = await page.$$eval("a[href]", ...)
    li,           \* index of the array iterator of `for (const link of links)`
    page,         \* the document the DOM queries run against
    stage,        \* which `yield* await getX(page)` of src/index.ts is running
    items,        \* the array the current yield* delegates to
    ii,           \* index of that array's iterator
    emitted,      \* the Resources the consumer has received, in order
    arrived,      \* history: every response event since navigation began, in order,
                  \* each with the position of the generator at that time
    caughtError,  \* let caughtError
    closeCount,   \* number of calls of browser.close()
    consumer,     \* what the consumer last did: "pulling", "returned", "threw"
    thrown,       \* the value the consumer passed to throw(), if any
    outcome,      \* how the sequence ended for the consumer
    navResult,    \* history: what page.goto() settled with
    faults,       \* history: the failures the run has met
    mapIn,        \* classifier alone: the response given to mapResourceType
    mapOut        \* classifier alone: its result

vars == <<variant, optLinks, pc, launched, observer, navStarted, seen, queue, qi,
          links, li, page, stage, items, ii, emitted, arrived, caughtError,
          closeCount, consumer, thrown, outcome, navResult, faults, mapIn, mapOut>>

(***************************************************************************)
(* Bounds of the model.                                                     *)
(***************************************************************************)
MaxResponses == 3
MaxAnchors == 2
MaxElems == 2

(***************************************************************************)
(* String primitives (String.prototype.startsWith / includes / trim,        *)
(* case-insensitive matching).                                              *)
(***************************************************************************)
Range(s) == {s[i] : i \in 1..Len(s)}

StartsWith(s, p) ==
    /\ Len(p) <= Len(s)
    /\ SubSeq(s, 1, Len(p)) = p

StartsWithAt(s, p, i) ==
    /\ i + Len(p) - 1 <= Len(s)
    /\ SubSeq(s, i, i + Len(p) - 1) = p

Includes(s, p) == \E i \in 1..(Len(s) + 1) : StartsWithAt(s, p, i)

UpperCase == <<"A","B","C","D","E","F","G","H","I","J","K","L","M",
               "N","O","P","Q","R","S","T","U","V","W","X","Y","Z">>
LowerCase == <<"a","b","c","d","e","f","g","h","i","j","k","l","m",
               "n","o","p","q","r","s","t","u","v","w","x","y","z">>

LowerChar(c) ==
    IF \E k \in 1..Len(UpperCase) : UpperCase[k] = c
    THEN LowerCase[CHOOSE k \in 1..Len(UpperCase) : UpperCase[k] = c]
    ELSE c

ToLower(s) == [i \in 1..Len(s) |-> LowerChar(s[i])]

\* url.match(/favicon|apple-touch-icon/i)
MatchesFavicon(url) ==
    \/ Includes(ToLower(url), <<"f","a","v","i","c","o","n">>)
    \/ Includes(ToLower(url),
                <<"a","p","p","l","e","-","t","o","u","c","h","-","i","c","o","n">>)

DataScheme == <<"d","a","t","a",":">>
AudioPrefix == <<"a","u","d","i","o","/">>
VideoPrefix == <<"v","i","d","e","o","/">>
SvgPrefix == <<"i","m","a","g","e","/","s","v","g">>
PdfType == <<"a","p","p","l","i","c","a","t","i","o","n","/","p","d","f">>
OctetType == <<"a","p","p","l","i","c","a","t","i","o","n","/",
               "o","c","t","e","t","-","s","t","r","e","a","m">>

(***************************************************************************)
(* Values.                                                                  *)
(***************************************************************************)
Null == "null"

\* type ResourceType (types.ts)
ResourceType == {"stylesheet", "script", "image", "favicon", "video", "audio",
                 "object", "iframe", "link", "font", "manifest"}

Resource(t, u) == [type |-> t, url |-> u]

(***************************************************************************)
(* mapResourceType (src/src/network.ts).  A response is                     *)
(*   type        request.resourceType()                                     *)
(*   url         response.url()                                             *)
(*   headers     response.headers(), a function of the header names present *)
(*   frame       "none" (request.frame() is null), "main" (no parentFrame), *)
(*               "child" (parentFrame() is a frame)                         *)
(* The result is a ResourceType or Null.                                    *)
(***************************************************************************)
ContentTypeHeader == "content-type"

\* response.headers()["content-type"] || ""
HeaderOrEmpty(r) ==
    IF ContentTypeHeader \in DOMAIN r.headers
    THEN r.headers[ContentTypeHeader]
    ELSE <<>>

HasParentFrame(r) == r.frame = "child"

\* mapResourceType without its test for data: URLs.
MutMapNoDataCheck(response, mainFrameUrl) ==
    LET type == response.type
        url == response.url
        contentType == HeaderOrEmpty(response)
    IN  CASE type = "stylesheet" -> "stylesheet"
          [] type = "script" -> "script"
          [] type = "image" ->
                IF MatchesFavicon(url) THEN "favicon" ELSE "image"
          [] type = "media" ->
                IF StartsWith(contentType, AudioPrefix) THEN "audio"
                ELSE IF StartsWith(contentType, VideoPrefix) THEN "video"
                ELSE Null
          [] type = "font" -> "font"
          [] type = "manifest" -> "manifest"
          [] type = "document" ->
                IF StartsWith(contentType, SvgPrefix) THEN "image"
                ELSE IF HasParentFrame(response) THEN "iframe"
                ELSE Null
          [] type = "other" ->
                IF \/ Includes(contentType, PdfType)
                   \/ Includes(contentType, OctetType)
                THEN "object"
                ELSE Null
          [] OTHER -> Null

mapResourceType(response, mainFrameUrl) ==
    LET type == response.type
        url == response.url
        contentType == HeaderOrEmpty(response)
    IN  IF StartsWith(url, DataScheme) THEN Null
        ELSE CASE type = "stylesheet" -> "stylesheet"
               [] type = "script" -> "script"
               [] type = "image" ->
                     IF MatchesFavicon(url) THEN "favicon" ELSE "image"
               [] type = "media" ->
                     IF StartsWith(contentType, AudioPrefix) THEN "audio"
                     ELSE IF StartsWith(contentType, VideoPrefix) THEN "video"
                     ELSE Null
               [] type = "font" -> "font"
               [] type = "manifest" -> "manifest"
               [] type = "document" ->
                     IF StartsWith(contentType, SvgPrefix) THEN "image"
                     ELSE IF HasParentFrame(response) THEN "iframe"
                     ELSE Null
               [] type = "other" ->
                     IF \/ Includes(contentType, PdfType)
                        \/ Includes(contentType, OctetType)
                     THEN "object"
                     ELSE Null
               [] OTHER -> Null

(***************************************************************************)
(* URLs: the WHATWG URL parser as far as the code relies on it.             *)
(*   new URL(s, base) throws a TypeError on an unparseable input (here: a   *)
(*   host that opens an IPv6 bracket and never closes it); an input with a  *)
(*   scheme is absolute; anything else is resolved against the directory    *)
(*   of the base.                                                           *)
(***************************************************************************)
Throws == <<"TypeError">>

Unparseable(s) == "[" \in Range(s) /\ "]" \notin Range(s)

HasScheme(s) ==
    \E i \in 1..Len(s) :
        /\ s[i] = ":"
        /\ i > 1
        /\ \A j \in 1..(i - 1) : s[j] \notin {"/", ":", " "}

LastSlash(s) ==
    IF "/" \in Range(s) THEN CHOOSE i \in 1..Len(s) :
                                 /\ s[i] = "/"
                                 /\ \A j \in (i + 1)..Len(s) : s[j] # "/"
    ELSE 0

DirOf(base) == SubSeq(base, 1, LastSlash(base))

\* new URL(s, base).href, or Throws
NewURL(s, base) ==
    IF Unparseable(s) THEN Throws
    ELSE IF HasScheme(s) THEN s
    ELSE DirOf(base) \o s

\* new URL(s, base).protocol === "data:"
ProtocolIsData(s, base) == StartsWith(NewURL(s, base), DataScheme)

\* A reflected URL attribute (elem.href, elem.src): the resolved URL, or the
\* attribute's value as it is when it does not parse; it never throws.
Reflect(attr, base) ==
    IF Unparseable(attr) THEN attr ELSE NewURL(attr, base)

(***************************************************************************)
(* The run's inputs.                                                        *)
(***************************************************************************)
TargetUrl == <<"h",":","/","p">>

U_css == <<"h",":","/","a",".","c","s","s">>
U_js == <<"h",":","/","b",".","j","s">>
U_data == <<"d","a","t","a",":",",","x">>
U_fav == <<"h",":","/","F","a","v","I","c","o","n",".","i","c","o">>

A_js == <<"b",".","j","s">>
A_q == <<"q">>

T_html == <<"t","e","x","t","/","h","t","m","l">>
T_css == <<"t","e","x","t","/","c","s","s">>

Header(v) == [h \in {ContentTypeHeader} |-> v]
NoHeaders == [h \in {} |-> <<>>]

Response(t, u, hs, f) == [type |-> t, url |-> u, headers |-> hs, frame |-> f]

\* The response events a run of the network-observed form is driven with.
NetResponses ==
    { Response("document", TargetUrl, Header(T_html), "main"),
      Response("stylesheet", U_css, Header(T_css), "main"),
      Response("script", U_js, NoHeaders, "main"),
      Response("image", U_data, NoHeaders, "main") }

\* The a[href] elements of the page: html is `el instanceof HTMLAnchorElement`
\* (an SVG <a> matches the selector and is no HTMLAnchorElement).
Anchor(h, a) == [html |-> h, href |-> a]

AnchorElems == { Anchor(TRUE, A_js), Anchor(TRUE, U_data), Anchor(FALSE, A_q) }

SeqsUpTo(S, n) == UNION { [1..k -> S] : k \in 0..n }

\* page.goto resolves with null, resolves with a response, or rejects.
NotNavigated == [kind |-> "pending", status |-> 0]

NavResults ==
    { [kind |-> "null", status |-> 0],
      [kind |-> "response", status |-> 200],
      [kind |-> "response", status |-> 404],
      [kind |-> "rejects", status |-> 0] }

\* HTTPResponse.ok(): the status is in the range 200-299
ResponseOk(nav) == nav.status >= 200 /\ nav.status <= 299

(***************************************************************************)
(* Errors and other thrown values.                                          *)
(***************************************************************************)
UndefinedValue == [kind |-> "undefined", message |-> <<>>]
FalsyValue == [kind |-> "zero", message |-> <<>>]
LaunchError == [kind |-> "LaunchError", message |-> <<>>]
PageError == [kind |-> "ProtocolError", message |-> <<>>]
TimeoutError == [kind |-> "TimeoutError", message |-> <<>>]
EvalError == [kind |-> "EvalError", message |-> <<>>]
CloseError == [kind |-> "CloseError", message |-> <<>>]
ConsumerError == [kind |-> "ConsumerError", message |-> <<>>]
IteratorTypeError == [kind |-> "TypeError", message |-> <<>>]

\* if (caughtError)
Truthy(v) == v # UndefinedValue /\ v # FalsyValue

DigitChars == <<"0","1","2","3","4","5","6","7","8","9">>

\* `${n}` for a number n >= 0
RECURSIVE Decimal(_)
Decimal(n) ==
    IF n < 10 THEN <<DigitChars[n + 1]>>
    ELSE Decimal(n \div 10) \o <<DigitChars[(n % 10) + 1]>>

\* new Error(`Failed to navigate to ${url}${reason}`)
NavigationError(url, nav) ==
    LET reason == IF nav.kind = "response"
                  THEN <<".", " ", "H", "T", "T", "P", " ">> \o Decimal(nav.status)
                  ELSE <<>>
    IN  [kind |-> "Error",
         message |-> <<"F","a","i","l","e","d"," ","t","o"," ",
                       "n","a","v","i","g","a","t","e"," ","t","o"," ">>
                         \o url \o reason]

Pending == [state |-> "pending", error |-> UndefinedValue]
Done == [state |-> "done", error |-> UndefinedValue]
Failed(e) == [state |-> "error", error |-> e]

(***************************************************************************)
(* The generator body, common to both forms:                                *)
(*   try { ... } catch (error) { caughtError = error; }                     *)
(*   finally { await browser.close(); if (caughtError) throw caughtError; } *)
(***************************************************************************)
\* Finally with the call of browser.close() left out.
MutFinallyNoClose(err) ==
    /\ pc' = "closing"
    /\ caughtError' = err
    /\ closeCount' = closeCount

\* Control reaches the finally block, through the catch block when err was
\* thrown (err is UndefinedValue when nothing was): browser.close() is called
\* and awaited.
Finally(err) ==
    /\ pc' = "closing"
    /\ caughtError' = err
    /\ closeCount' = closeCount + 1

\* What the finally block ends with once browser.close() has settled.
Settle(closeOk) ==
    IF ~closeOk THEN Failed(CloseError)
    ELSE IF Truthy(caughtError) THEN Failed(caughtError)
    ELSE Done

(***************************************************************************)
(* src/src/network.ts                                                       *)
(***************************************************************************)
\* OnResponse putting the Resource at the front of the queue.
MutOnResponseUnshift(response) ==
    LET resourceType == mapResourceType(response, TargetUrl)
        resourceUrl == response.url
    IN  IF resourceType = Null \/ resourceUrl \in seen
        THEN UNCHANGED <<seen, queue>>
        ELSE /\ seen' = seen \cup {resourceUrl}
             /\ queue' = <<Resource(resourceType, resourceUrl)>> \o queue

\* page.on("response", response => { ... })
OnResponse(response) ==
    LET resourceType == mapResourceType(response, TargetUrl)
        resourceUrl == response.url
    IN  IF resourceType = Null \/ resourceUrl \in seen
        THEN UNCHANGED <<seen, queue>>
        ELSE /\ seen' = seen \cup {resourceUrl}
             /\ queue' = Append(queue, Resource(resourceType, resourceUrl))

\* AfterQueue querying the links whatever options.links is.
MutAfterQueueAlwaysLinks ==
    /\ pc' = "evalLinks"
    /\ UNCHANGED <<caughtError, closeCount>>

\* if (options.links) { const links = await page.$$eval(...) ... }
AfterQueue ==
    IF optLinks
    THEN /\ pc' = "evalLinks"
         /\ UNCHANGED <<caughtError, closeCount>>
    ELSE Finally(UndefinedValue)

\* for (const resource of queue) { yield resource; }   The array iterator
\* reads queue.length at every step, so what the observer appends while the
\* generator is suspended is still iterated.
QueueLoop ==
    IF qi < Len(queue)
    THEN /\ emitted' = Append(emitted, queue[qi + 1])
         /\ qi' = qi + 1
         /\ pc' = "yieldQ"
         /\ UNCHANGED <<caughtError, closeCount>>
    ELSE /\ AfterQueue
         /\ UNCHANGED <<emitted, qi>>

\* page.$$eval("a[href]", elems => elems.filter(...).map(...))
EvalAnchors(anchors) ==
    LET html == SelectSeq(anchors, LAMBDA el : el.html)
    IN  [i \in 1..Len(html) |-> Resource("link", Reflect(html[i].href, TargetUrl))]

\* The first index after i of a link whose url is not in sn, or 0.
NextUnseen(ls, i, sn) ==
    IF \E j \in (i + 1)..Len(ls) : ls[j].url \notin sn
    THEN CHOOSE j \in (i + 1)..Len(ls) :
             /\ ls[j].url \notin sn
             /\ \A k \in (i + 1)..(j - 1) : ls[k].url \in sn
    ELSE 0

\* for (const link of links) { if (!seen.has(link.url)) { seen.add(link.url); yield link; } }
LinkLoop(ls, i) ==
    LET j == NextUnseen(ls, i, seen)
    IN  IF j # 0
        THEN /\ seen' = seen \cup {ls[j].url}
             /\ emitted' = Append(emitted, ls[j])
             /\ li' = j
             /\ pc' = "yieldL"
             /\ UNCHANGED <<caughtError, closeCount>>
        ELSE /\ li' = Len(ls)
             /\ Finally(UndefinedValue)
             /\ UNCHANGED <<seen, emitted>>

(***************************************************************************)
(* Actions.                                                                 *)
(***************************************************************************)
\* The first next(): const browser = await puppeteer.launch(...), outside the try.
Launch ==
    /\ pc = "start"
    /\ variant \in {"network", "dom"}
    /\ \E ok \in BOOLEAN :
          IF ok
          THEN /\ launched' = TRUE
               /\ pc' = "newPage"
               /\ UNCHANGED <<outcome, faults>>
          ELSE /\ pc' = "done"
               /\ outcome' = Failed(LaunchError)
               /\ faults' = faults \cup {"launch"}
               /\ UNCHANGED launched
    /\ UNCHANGED <<variant, optLinks, observer, navStarted, seen, queue, qi, links, li,
                   page, stage, items, ii, emitted, arrived, caughtError, closeCount,
                   consumer, thrown,
                   navResult, mapIn, mapOut>>

\* return() on a generator that has not started: the body never runs.
ReturnBeforeStart ==
    /\ pc = "start"
    /\ variant \in {"network", "dom"}
    /\ pc' = "done"
    /\ consumer' = "returned"
    /\ outcome' = Done
    /\ UNCHANGED <<variant, optLinks, launched, observer, navStarted, seen, queue, qi,
                   links, li, page, stage, items, ii, emitted, arrived, caughtError,
                   closeCount, thrown,
                   navResult, faults, mapIn, mapOut>>

\* await browser.newPage() settles; page.on("response", ...) and page.goto(...)
\* are then called without a suspension point between them.
NewPageNet ==
    /\ pc = "newPage"
    /\ variant = "network"
    /\ \E ok \in BOOLEAN :
          IF ok
          THEN /\ observer' = TRUE
               /\ navStarted' = TRUE
               /\ pc' = "goto"
               /\ UNCHANGED <<caughtError, closeCount, faults>>
          ELSE /\ Finally(PageError)
               /\ faults' = faults \cup {"newPage"}
               /\ UNCHANGED <<observer, navStarted>>
    /\ UNCHANGED <<variant, optLinks, launched, seen, queue, qi, links, li, page, stage,
                   items, ii, emitted, arrived, consumer, thrown, outcome,
                   navResult, mapIn, mapOut>>

\* A response event of the page, delivered while the generator is suspended
\* (at an await or at a yield) and the browser is still there.
ResponseEvent ==
    /\ variant = "network"
    /\ navStarted
    /\ pc \in {"goto", "yieldQ", "evalLinks", "yieldL", "closing"}
    /\ Len(arrived) < MaxResponses
    /\ \E response \in NetResponses :
          /\ arrived' = Append(arrived, [response |-> response, at |-> pc])
          /\ IF observer THEN OnResponse(response) ELSE UNCHANGED <<seen, queue>>
    /\ UNCHANGED <<variant, optLinks, pc, launched, observer, navStarted, qi, links, li,
                   page, stage, items, ii, emitted, caughtError, closeCount, consumer,
                   thrown, outcome,
                   navResult, faults, mapIn, mapOut>>

\* await page.goto(url.href, { waitUntil: "networkidle0" }) settles.
GotoNet ==
    /\ pc = "goto"
    /\ variant = "network"
    /\ \E nav \in NavResults :
          /\ navResult' = nav
          /\ IF nav.kind = "rejects"
             THEN /\ Finally(TimeoutError)
                  /\ faults' = faults \cup {"goto"}
                  /\ UNCHANGED <<emitted, qi>>
             ELSE IF nav.kind = "null" \/ ~ResponseOk(nav)
             THEN /\ Finally(NavigationError(TargetUrl, nav))
                  /\ faults' = faults \cup {"navigation"}
                  /\ UNCHANGED <<emitted, qi>>
             ELSE /\ QueueLoop
                  /\ UNCHANGED faults
    /\ UNCHANGED <<variant, optLinks, launched, observer, navStarted, seen, queue, links,
                   li, page, stage, items, ii, arrived, consumer, thrown, outcome,
                   mapIn, mapOut>>

\* next() while suspended at `yield resource`
NextAtQueue ==
    /\ pc = "yieldQ"
    /\ QueueLoop
    /\ UNCHANGED <<variant, optLinks, launched, observer, navStarted, seen, queue, links,
                   li, page, stage, items, ii, arrived, consumer, thrown, outcome,
                   navResult, faults, mapIn, mapOut>>

\* await page.$$eval("a[href]", ...) settles
EvalLinks ==
    /\ pc = "evalLinks"
    /\ \E ok \in BOOLEAN :
          IF ok
          THEN \E anchors \in SeqsUpTo(AnchorElems, MaxAnchors) :
                  /\ links' = EvalAnchors(anchors)
                  /\ LinkLoop(EvalAnchors(anchors), 0)
                  /\ UNCHANGED faults
          ELSE /\ Finally(EvalError)
               /\ faults' = faults \cup {"eval"}
               /\ UNCHANGED <<links, li, seen, emitted>>
    /\ UNCHANGED <<variant, optLinks, launched, observer, navStarted, queue, qi, page,
                   stage, items, ii, arrived, consumer, thrown, outcome,
                   navResult, mapIn, mapOut>>

\* next() while suspended at `yield link`
NextAtLink ==
    /\ pc = "yieldL"
    /\ LinkLoop(links, li)
    /\ UNCHANGED <<variant, optLinks, launched, observer, navStarted, queue, qi, links,
                   page, stage, items, ii, arrived, consumer, thrown, outcome,
                   navResult, faults, mapIn, mapOut>>

\* return() while suspended at a yield of network.ts: the finally block runs.
ReturnNet ==
    /\ pc \in {"yieldQ", "yieldL"}
    /\ consumer' = "returned"
    /\ Finally(UndefinedValue)
    /\ UNCHANGED <<variant, optLinks, launched, observer, navStarted, seen, queue, qi,
                   links, li, page, stage, items, ii, emitted, arrived, thrown, outcome,
                   navResult, faults, mapIn, mapOut>>

\* throw(v) while suspended at a yield of network.ts: the catch block gets v.
ThrowNet ==
    /\ pc \in {"yieldQ", "yieldL"}
    /\ \E v \in {ConsumerError, FalsyValue} :
          /\ consumer' = "threw"
          /\ thrown' = v
          /\ Finally(v)
    /\ UNCHANGED <<variant, optLinks, launched, observer, navStarted, seen, queue, qi,
                   links, li, page, stage, items, ii, emitted, arrived, outcome,
                   navResult, faults, mapIn, mapOut>>

\* await browser.close() settles; if (caughtError) throw caughtError.
CloseSettles ==
    /\ pc = "closing"
    /\ \E closeOk \in BOOLEAN :
          /\ outcome' = Settle(closeOk)
          /\ faults' = IF closeOk THEN faults ELSE faults \cup {"close"}
    /\ pc' = "done"
    /\ UNCHANGED <<variant, optLinks, launched, observer, navStarted, seen, queue, qi,
                   links, li, page, stage, items, ii, emitted, arrived, caughtError,
                   closeCount, consumer, thrown,
                   navResult, mapIn, mapOut>>

(***************************************************************************)
(* src/index.ts: the document and the extraction passes.                    *)
(*                                                                         *)
(* An element is                                                            *)
(*   tag     the element's tag                                              *)
(*   rel     the tokens of its rel attribute                                *)
(*   url     its href / src / data attribute, Absent when it has none       *)
(*   srcset  its srcset attribute, Absent when it has none                  *)
(*   parent  the tag of its parent element                                  *)
(*   sheet   the CSSStyleSheet it contributes to document.styleSheets       *)
(* A sheet is                                                               *)
(*   present  the element has a sheet                                       *)
(*   readable reading stylesheet.cssRules does not throw (same origin)      *)
(*   href     stylesheet.href, Absent for an inline sheet                   *)
(*   rules    its cssRules                                                  *)
(* A rule is                                                                *)
(*   kind             "import", "style" or "fontface"                       *)
(*   href             CSSImportRule.href                                    *)
(*   backgroundImage  rule.style.backgroundImage                            *)
(*   content          rule.style.content                                    *)
(*   src              rule.style.src                                        *)
(***************************************************************************)
Absent == <<>>

IsWs(c) == c = " "

RECURSIVE TrimStart(_)
TrimStart(s) ==
    IF s # <<>> /\ IsWs(Head(s)) THEN TrimStart(Tail(s)) ELSE s

RECURSIVE TrimEnd(_)
TrimEnd(s) ==
    IF s # <<>> /\ IsWs(s[Len(s)]) THEN TrimEnd(SubSeq(s, 1, Len(s) - 1)) ELSE s

\* String.prototype.trim
Trim(s) == TrimEnd(TrimStart(s))

RECURSIVE Flatten(_)
Flatten(ss) == IF ss = <<>> THEN <<>> ELSE Head(ss) \o Flatten(Tail(ss))

\* s.split(c) for a one-character separator
RECURSIVE SplitOn(_, _)
SplitOn(s, c) ==
    IF \E i \in 1..Len(s) : s[i] = c
    THEN LET i == CHOOSE k \in 1..Len(s) :
                      s[k] = c /\ \A j \in 1..(k - 1) : s[j] # c
         IN  <<SubSeq(s, 1, i - 1)>> \o SplitOn(SubSeq(s, i + 1, Len(s)), c)
    ELSE <<s>>

\* s.split(/,\s+/): a separator is a comma and the whitespace run after it
RECURSIVE SplitCommaWs(_)
SplitCommaWs(s) ==
    LET IsSep(k) == s[k] = "," /\ k < Len(s) /\ IsWs(s[k + 1])
    IN  IF \E i \in 1..Len(s) : IsSep(i)
        THEN LET i == CHOOSE k \in 1..Len(s) :
                          IsSep(k) /\ \A j \in 1..(k - 1) : ~IsSep(j)
             IN  <<SubSeq(s, 1, i - 1)>>
                     \o SplitCommaWs(TrimStart(SubSeq(s, i + 1, Len(s))))
        ELSE <<s>>

\* part.trim().split(/\s+/, 2)[0]
FirstToken(part) ==
    LET p == Trim(part)
    IN  IF \E i \in 1..Len(p) : IsWs(p[i])
        THEN LET i == CHOOSE k \in 1..Len(p) :
                          IsWs(p[k]) /\ \A j \in 1..(k - 1) : ~IsWs(p[j])
             IN  SubSeq(p, 1, i - 1)
        ELSE p

\* elem.srcset.trim().split(/,\s+/).filter(s => s.trim()).map(part => ...[0])
SrcsetCandidates(srcset) ==
    LET parts == SelectSeq(SplitCommaWs(Trim(srcset)), LAMBDA x : Trim(x) # <<>>)
    IN  [i \in 1..Len(parts) |-> FirstToken(parts[i])]

UrlOpen == <<"u","r","l","(","\"">>

\* s.match(/url\("([^)]+)"\)/): the group runs from url(" to the quote before
\* the first closing parenthesis after it, and is not empty.
MatchUrl(s) ==
    LET CloseAt(i) ==      \* the first ")" after the url(" that starts at i, or 0
            IF \E k \in (i + 5)..Len(s) : s[k] = ")"
            THEN CHOOSE k \in (i + 5)..Len(s) :
                     s[k] = ")" /\ \A j \in (i + 5)..(k - 1) : s[j] # ")"
            ELSE 0
        MatchAt(i) ==
            /\ StartsWithAt(s, UrlOpen, i)
            /\ CloseAt(i) >= i + 7
            /\ s[CloseAt(i) - 1] = "\""
    IN  IF \E i \in 1..Len(s) : MatchAt(i)
        THEN LET i == CHOOSE k \in 1..Len(s) :
                          MatchAt(k) /\ \A j \in 1..(k - 1) : ~MatchAt(j)
             IN  [found |-> TRUE, group |-> SubSeq(s, i + 5, CloseAt(i) - 2)]
        ELSE [found |-> FALSE, group |-> <<>>]

\* value.split(",").map(s => s.match(...)).map(s => s ? s[1].trim() : undefined)
\*      .filter(s => !!s).map(url => new URL(url, baseURL).href)
CssUrlList(value, baseURL) ==
    LET parts == SplitOn(value, ",")
        groups == [i \in 1..Len(parts) |->
                      IF MatchUrl(parts[i]).found
                      THEN Trim(MatchUrl(parts[i]).group)
                      ELSE <<>>]
        kept == SelectSeq(groups, LAMBDA g : g # <<>>)
    IN  [i \in 1..Len(kept) |-> NewURL(kept[i], baseURL)]

\* new URL(s) without a base
NewURLNoBase(s) ==
    IF Unparseable(s) \/ ~HasScheme(s) THEN Throws ELSE s

\* elem.href, elem.src, elem.data
ReflectAttr(attr, base) == IF attr = Absent THEN <<>> ELSE Reflect(attr, base)

HasThrow(urls) == \E i \in 1..Len(urls) : urls[i] = Throws

Returned(rs) == [ok |-> TRUE, items |-> rs]
Rejected == [ok |-> FALSE, items |-> <<>>]

Typed(t, urls) == [i \in 1..Len(urls) |-> Resource(t, urls[i])]

\* document.styleSheets
StyleSheets(doc) ==
    LET els == SelectSeq(doc, LAMBDA el : el.sheet.present)
    IN  [i \in 1..Len(els) |-> els[i].sheet]

\* try { stylesheet.cssRules; } catch { continue; }
Readable(sheets) == SelectSeq(sheets, LAMBDA sh : sh.readable)

\* const baseURL = stylesheet.href || pageURL
BaseURL(sh, pageURL) == IF sh.href = Absent THEN pageURL ELSE sh.href

\* What one rule contributes to getImportedStyleSheets ("imports"),
\* getStyleSheetImages ("images") and getFonts ("fonts").
RuleUrls(pass, rule, baseURL) ==
    CASE pass = "imports" ->
            IF rule.kind = "import" THEN <<NewURL(rule.href, baseURL)>> ELSE <<>>
      [] pass = "images" ->
            IF rule.kind = "style" /\ rule.backgroundImage # <<>>
            THEN CssUrlList(rule.backgroundImage, baseURL)
            ELSE IF rule.kind = "style" /\ rule.content # <<>>
            THEN LET match == MatchUrl(rule.content)
                     url == Trim(match.group)
                 IN  IF ~match.found THEN <<>>
                     ELSE IF url = <<>> THEN <<>>
                     ELSE IF NewURL(url, baseURL) = Throws THEN <<Throws>>
                     ELSE IF ProtocolIsData(url, baseURL) THEN <<>>
                     ELSE <<NewURL(url, baseURL)>>
            ELSE <<>>
      [] pass = "fonts" ->
            IF rule.kind = "fontface" /\ rule.src # <<>>
            THEN CssUrlList(rule.src, baseURL)
            ELSE <<>>

\* for (const stylesheet of document.styleSheets) { try {...} catch { continue; }
\*   for (const rule of stylesheet.cssRules) {...} }
FromRules(doc, pageURL, pass) ==
    LET sheets == Readable(StyleSheets(doc))
    IN  Flatten([i \in 1..Len(sheets) |->
                    Flatten([k \in 1..Len(sheets[i].rules) |->
                                RuleUrls(pass, sheets[i].rules[k],
                                         BaseURL(sheets[i], pageURL))])])

Settled(t, urls) == IF HasThrow(urls) THEN Rejected ELSE Returned(Typed(t, urls))

getStyleSheets(doc, pageURL) ==
    LET els == SelectSeq(doc, LAMBDA el : el.tag = "link" /\ "stylesheet" \in el.rel)
    IN  Returned([i \in 1..Len(els) |->
                     Resource("stylesheet", ReflectAttr(els[i].url, pageURL))])

getImportedStyleSheets(doc, pageURL) ==
    Settled("stylesheet", FromRules(doc, pageURL, "imports"))

getScripts(doc, pageURL) ==
    LET els == SelectSeq(doc, LAMBDA el : el.tag = "script" /\ el.url # Absent)
    IN  Returned([i \in 1..Len(els) |->
                     Resource("script", ReflectAttr(els[i].url, pageURL))])

\* img[src], video > source[src], video[src], audio[src]
MediaSelector(el) ==
    /\ el.url # Absent
    /\ \/ el.tag \in {"img", "video", "audio"}
       \/ el.tag = "source" /\ el.parent = "video"

\* the type an element of the first query of getMedia gets, or Null where
\* the callback reaches `throw new Error("Reached unreachable code.")`
MediaType(el) ==
    IF el.tag = "img" THEN "image"
    ELSE IF el.tag = "video" THEN "video"
    ELSE IF el.tag = "source"
         THEN IF el.parent = "video" THEN "video" ELSE "audio"
    ELSE Null

\* img[srcset], picture > source[srcset]
SrcsetSelector(el) ==
    /\ el.srcset # Absent
    /\ \/ el.tag = "img"
       \/ el.tag = "source" /\ el.parent = "picture"

getMedia(doc, pageURL) ==
    LET els == SelectSeq(doc, MediaSelector)
        mediaSources == [i \in 1..Len(els) |->
                            Resource(MediaType(els[i]), ReflectAttr(els[i].url, pageURL))]
        sets == SelectSeq(doc, SrcsetSelector)
        urls == Flatten([i \in 1..Len(sets) |->
                    LET cs == SrcsetCandidates(sets[i].srcset)
                    IN  [k \in 1..Len(cs) |-> NewURL(cs[k], pageURL)]])
    IN  IF \E i \in 1..Len(els) : MediaType(els[i]) = Null THEN Rejected
        ELSE IF HasThrow(urls) THEN Rejected
        ELSE Returned(mediaSources \o Typed("image", urls))

getStyleSheetImages(doc, pageURL) ==
    Settled("image", FromRules(doc, pageURL, "images"))

getFonts(doc, pageURL) ==
    Settled("font", FromRules(doc, pageURL, "fonts"))

getFavicons(doc, pageURL) ==
    LET els == SelectSeq(doc, LAMBDA el :
                   el.tag = "link" /\ el.rel \cap {"icon", "apple-touch-icon"} # {})
        hrefs == [i \in 1..Len(els) |-> ReflectAttr(els[i].url, pageURL)]
        given == SelectSeq(hrefs, LAMBDA h : h # <<>>)
        kept == SelectSeq(given, LAMBDA h : ~StartsWith(NewURLNoBase(h), DataScheme))
    IN  IF \E i \in 1..Len(given) : NewURLNoBase(given[i]) = Throws THEN Rejected
        ELSE Returned(Typed("favicon", kept))

getIframes(doc, pageURL) ==
    LET els == SelectSeq(doc, LAMBDA el : el.tag = "iframe" /\ el.url # Absent)
    IN  Returned([i \in 1..Len(els) |->
                     Resource("iframe", ReflectAttr(els[i].url, pageURL))])

getMiscResources(doc, pageURL) ==
    LET mans == SelectSeq(doc, LAMBDA el : el.tag = "link" /\ "manifest" \in el.rel)
        manifest == IF mans = <<>> THEN <<>>
                    ELSE <<Resource("manifest", ReflectAttr(mans[1].url, pageURL))>>
        objs == SelectSeq(doc, LAMBDA el : el.tag = "object" /\ el.url # Absent)
        urls == [i \in 1..Len(objs) |->
                    NewURL(ReflectAttr(objs[i].url, pageURL), pageURL)]
        dataObjects == SelectSeq(urls, LAMBDA u : u # Throws)
    IN  Returned(manifest \o Typed("object", dataObjects))

\* The passes of getAllSubResources, in the order of its yield* statements.
NumPasses == 9

Pass(n, doc, pageURL) ==
    CASE n = 1 -> getStyleSheets(doc, pageURL)
      [] n = 2 -> getImportedStyleSheets(doc, pageURL)
      [] n = 3 -> getScripts(doc, pageURL)
      [] n = 4 -> getMedia(doc, pageURL)
      [] n = 5 -> getStyleSheetImages(doc, pageURL)
      [] n = 6 -> getFonts(doc, pageURL)
      [] n = 7 -> getFavicons(doc, pageURL)
      [] n = 8 -> getIframes(doc, pageURL)
      [] n = 9 -> getMiscResources(doc, pageURL)

(***************************************************************************)
(* The documents a run of the DOM-query form is driven with.                *)
(***************************************************************************)
A_css == <<"a",".","c","s","s">>
A_xcss == <<"x",":","/","x",".","c","s","s">>
A_i == <<"i",".","c","s","s">>
A_c == <<"c",".","p","n","g">>
A_bad == <<"h",":","/","/","[">>
A_f == <<"f",".","w","o","f","f">>
A_m == <<"m",".","m","p","3">>
A_v == <<"v",".","m","p","4">>
A_ico == <<"f","a","v",".","i","c","o">>
A_frame == <<"d",".","h","t","m","l">>
A_man == <<"e",".","j","s","o","n">>
A_pdf == <<"o",".","p","d","f">>
BG_two == <<"u","r","l","(","\"","c",".","p","n","g","\"",")",","," ",
            "u","r","l","(","\"","d",".","p","n","g","\"",")">>
BG_bad == <<"u","r","l","(","\"","h",":","/","/","[","\"",")">>
BG_data == <<"u","r","l","(","\"","d","a","t","a",":",",","x","\"",")">>
F_src == <<"u","r","l","(","\"","f",".","w","o","f","f","\"",")"," ",
           "f","o","r","m","a","t","(","\"","w","o","f","f","\"",")">>
SS_two == <<"c",".","p","n","g"," ","1","x",","," ","d",".","p","n","g"," ","2","x">>
SS_bad == <<"h",":","/","/","["," ","1","x">>

NoSheet == [present |-> FALSE, readable |-> FALSE, href |-> Absent, rules |-> <<>>]
Sheet(r, h, rs) == [present |-> TRUE, readable |-> r, href |-> h, rules |-> rs]

ImportRule(h) ==
    [kind |-> "import", href |-> h, backgroundImage |-> <<>>, content |-> <<>>, src |-> <<>>]
StyleRule(bg, c) ==
    [kind |-> "style", href |-> <<>>, backgroundImage |-> bg, content |-> c, src |-> <<>>]
FontFaceRule(v) ==
    [kind |-> "fontface", href |-> <<>>, backgroundImage |-> <<>>, content |-> <<>>, src |-> v]

Elem(t, r, u, ss, par, sh) ==
    [tag |-> t, rel |-> r, url |-> u, srcset |-> ss, parent |-> par, sheet |-> sh]

Plain(t, u) == Elem(t, {}, u, Absent, "body", NoSheet)
Link(r, u) == Elem("link", {r}, u, Absent, "head", NoSheet)
Style(rule) == Elem("style", {}, Absent, Absent, "head", Sheet(TRUE, Absent, <<rule>>))

Elems ==
    { \* <link rel="stylesheet" href="a.css"> whose sheet holds @import "i.css"
      Elem("link", {"stylesheet"}, A_css, Absent, "head",
           Sheet(TRUE, NewURL(A_css, TargetUrl), <<ImportRule(A_i)>>)),
      \* a cross-origin stylesheet: its cssRules cannot be read
      Elem("link", {"stylesheet"}, A_xcss, Absent, "head",
           Sheet(FALSE, A_xcss, <<ImportRule(A_i)>>)),
      Style(StyleRule(BG_two, <<>>)),
      Style(StyleRule(BG_bad, <<>>)),
      Style(StyleRule(BG_data, <<>>)),
      Style(StyleRule(<<>>, BG_data)),
      Style(FontFaceRule(F_src)),
      Plain("script", A_js),
      Plain("img", A_c),
      Plain("img", U_data),
      Elem("img", {}, Absent, SS_two, "body", NoSheet),
      Elem("img", {}, Absent, SS_bad, "body", NoSheet),
      Plain("audio", A_m),
      Elem("source", {}, A_v, Absent, "video", NoSheet),
      Link("icon", A_ico),
      Link("icon", U_data),
      Link("icon", A_bad),
      Plain("iframe", A_frame),
      Link("manifest", A_man),
      Plain("object", A_pdf),
      Plain("object", A_bad) }

Documents == SeqsUpTo(Elems, MaxElems)

(***************************************************************************)
(* src/index.ts: getAllSubResources                                         *)
(***************************************************************************)
\* yield* over the array a pass returned; when it is exhausted the next pass
\* is called and awaited, and after the last one the finally block runs.
DomLoop(arr, i) ==
    IF i < Len(arr)
    THEN /\ emitted' = Append(emitted, arr[i + 1])
         /\ ii' = i + 1
         /\ pc' = "yieldD"
         /\ UNCHANGED <<stage, caughtError, closeCount>>
    ELSE /\ ii' = i
         /\ UNCHANGED emitted
         /\ IF stage < NumPasses
            THEN /\ stage' = stage + 1
                 /\ pc' = "evalDom"
                 /\ UNCHANGED <<caughtError, closeCount>>
            ELSE /\ Finally(UndefinedValue)
                 /\ UNCHANGED stage

\* await browser.newPage() settles; page.goto(url.href, {}) is called.
NewPageDom ==
    /\ pc = "newPage"
    /\ variant = "dom"
    /\ \E ok \in BOOLEAN :
          IF ok
          THEN /\ navStarted' = TRUE
               /\ pc' = "goto"
               /\ UNCHANGED <<caughtError, closeCount, faults>>
          ELSE /\ Finally(PageError)
               /\ faults' = faults \cup {"newPage"}
               /\ UNCHANGED navStarted
    /\ UNCHANGED <<variant, optLinks, launched, observer, seen, queue, qi, links, li,
                   page, stage, items, ii, emitted, arrived, consumer, thrown, outcome,
                   navResult, mapIn, mapOut>>

\* await page.goto(url.href, {}) settles; the first pass is called.
GotoDom ==
    /\ pc = "goto"
    /\ variant = "dom"
    /\ \E nav \in NavResults :
          /\ navResult' = nav
          /\ IF nav.kind = "rejects"
             THEN /\ Finally(TimeoutError)
                  /\ faults' = faults \cup {"goto"}
                  /\ UNCHANGED <<page, stage>>
             ELSE IF nav.kind = "null" \/ ~ResponseOk(nav)
             THEN /\ Finally(NavigationError(TargetUrl, nav))
                  /\ faults' = faults \cup {"navigation"}
                  /\ UNCHANGED <<page, stage>>
             ELSE /\ page' \in Documents
                  /\ stage' = 1
                  /\ pc' = "evalDom"
                  /\ UNCHANGED <<caughtError, closeCount, faults>>
    /\ UNCHANGED <<variant, optLinks, launched, observer, navStarted, seen, queue, qi,
                   links, li, items, ii, emitted, arrived, consumer, thrown, outcome,
                   mapIn, mapOut>>

\* The awaited pass settles: it rejects (the evaluation itself fails, or its
\* callback threw), or it returns the array yield* then delegates to.
EvalDom ==
    /\ pc = "evalDom"
    /\ \E evalOk \in BOOLEAN :
          LET r == Pass(stage, page, TargetUrl)
          IN  IF evalOk /\ r.ok
              THEN /\ items' = r.items
                   /\ DomLoop(r.items, 0)
                   /\ UNCHANGED faults
              ELSE /\ Finally(EvalError)
                   /\ faults' = faults \cup {IF evalOk THEN "item" ELSE "eval"}
                   /\ UNCHANGED <<items, ii, emitted, stage>>
    /\ UNCHANGED <<variant, optLinks, launched, observer, navStarted, seen, queue, qi,
                   links, li, page, arrived, consumer, thrown, outcome,
                   navResult, mapIn, mapOut>>

\* next() while suspended inside a yield*
NextAtDom ==
    /\ pc = "yieldD"
    /\ DomLoop(items, ii)
    /\ UNCHANGED <<variant, optLinks, launched, observer, navStarted, seen, queue, qi,
                   links, li, page, items, arrived, consumer, thrown, outcome,
                   navResult, faults, mapIn, mapOut>>

\* return() while suspended inside a yield*: the array iterator has no return
\* method, the generator completes with a return and the finally block runs.
ReturnDom ==
    /\ pc = "yieldD"
    /\ consumer' = "returned"
    /\ Finally(UndefinedValue)
    /\ UNCHANGED <<variant, optLinks, launched, observer, navStarted, seen, queue, qi,
                   links, li, page, stage, items, ii, emitted, arrived, thrown, outcome,
                   navResult, faults, mapIn, mapOut>>

\* throw(v) while suspended inside a yield*: the array iterator has no throw
\* method; depending on the engine's edition of the language the catch block
\* gets v or a TypeError.
ThrowDom ==
    /\ pc = "yieldD"
    /\ \E v \in {ConsumerError, FalsyValue} :
          /\ consumer' = "threw"
          /\ thrown' = v
          /\ \E e \in {v, IteratorTypeError} : Finally(e)
    /\ UNCHANGED <<variant, optLinks, launched, observer, navStarted, seen, queue, qi,
                   links, li, page, stage, items, ii, emitted, arrived, outcome,
                   navResult, faults, mapIn, mapOut>>

IdleResponse == Response("other", <<>>, NoHeaders, "none")

\* The state after construction, before the first next().
Idle ==
    /\ pc = "start"
    /\ launched = FALSE
    /\ observer = FALSE
    /\ navStarted = FALSE
    /\ seen = {}
    /\ queue = <<>>
    /\ qi = 0
    /\ links = <<>>
    /\ li = 0
    /\ page = <<>>
    /\ stage = 0
    /\ items = <<>>
    /\ ii = 0
    /\ emitted = <<>>
    /\ arrived = <<>>
    /\ caughtError = UndefinedValue
    /\ closeCount = 0
    /\ consumer = "pulling"
    /\ thrown = UndefinedValue
    /\ outcome = Pending
    /\ navResult = NotNavigated
    /\ faults = {}

Init ==
    /\ variant \in {"network", "dom"}
    /\ optLinks \in (IF variant = "network" THEN BOOLEAN ELSE {FALSE})
    /\ Idle
    /\ mapIn = IdleResponse
    /\ mapOut = Null

Next ==
    \/ Launch
    \/ ReturnBeforeStart
    \/ NewPageNet
    \/ ResponseEvent
    \/ GotoNet
    \/ NextAtQueue
    \/ EvalLinks
    \/ NextAtLink
    \/ ReturnNet
    \/ ThrowNet
    \/ NewPageDom
    \/ GotoDom
    \/ EvalDom
    \/ NextAtDom
    \/ ReturnDom
    \/ ThrowDom
    \/ CloseSettles

Spec == Init /\ [][Next]_vars

(***************************************************************************)
(* The classifier alone, applied to every response of a bounded set.        *)
(***************************************************************************)
U_touch == <<"h",":","/","a","p","p","l","e","-","t","o","u","c","h","-",
             "i","c","o","n",".","p","n","g">>
U_datafav == <<"d","a","t","a",":","f","a","v","i","c","o","n">>

T_audio == <<"a","u","d","i","o","/","m","p","3">>
T_video == <<"v","i","d","e","o","/","m","p","4">>
T_svg == <<"i","m","a","g","e","/","s","v","g","+","x","m","l">>
T_pdf == <<"a","p","p","l","i","c","a","t","i","o","n","/","p","d","f",";","q">>
T_notaudio == <<"x","/","a","u","d","i","o","/">>

RequestTypes == {"stylesheet", "script", "image", "media", "font", "manifest",
                 "document", "other", "xhr"}

MapUrls == {U_css, U_fav, U_touch, U_data, U_datafav}

MapHeaders == {NoHeaders} \cup
              {Header(v) : v \in {T_audio, T_video, T_svg, T_pdf, OctetType,
                                  T_html, T_notaudio}}

Frames == {"none", "main", "child"}

InitMap ==
    /\ variant = "map"
    /\ optLinks = FALSE
    /\ Idle
    /\ mapIn \in {Response(t, u, h, f) :
                      t \in RequestTypes, u \in MapUrls, h \in MapHeaders, f \in Frames}
    /\ mapOut = Null

Classify ==
    /\ variant = "map"
    /\ pc = "start"
    /\ mapOut' = mapResourceType(mapIn, TargetUrl)
    /\ pc' = "mapped"
    /\ UNCHANGED <<variant, optLinks, launched, observer, navStarted, seen, queue, qi,
                   links, li, page, stage, items, ii, emitted, arrived, caughtError,
                   closeCount, consumer, thrown, outcome, navResult, faults, mapIn>>

NextMap == Classify

SpecMap == InitMap /\ [][NextMap]_vars

(***************************************************************************)
(* Properties.                                                              *)
(***************************************************************************)
EmittedAt(u) == {k \in 1..Len(emitted) : emitted[k].url = u}

NonLinks(rs) == SelectSeq(rs, LAMBDA r : r.type # "link")

IsPrefix(a, b) == Len(a) <= Len(b) /\ SubSeq(b, 1, Len(a)) = a

NavigationFailed ==
    \/ navResult.kind = "null"
    \/ navResult.kind = "response" /\ ~ResponseOk(navResult)

\* C1: no two emitted Resources share the same url, in the network-observed
\* form and in the DOM-query form alike.
Inv_C1_UniqueUrls ==
    \A i, j \in 1..Len(emitted) : i # j => emitted[i].url # emitted[j].url

\* C2: browser.close() is never called twice, never called before or without
\* a launched browser, and has been called exactly once whenever a run whose
\* browser was launched has ended, however it ended (full consumption, a
\* failure, return() or throw() at any yield).
Thm_C2_ReleasedExactlyOnce ==
    /\ closeCount <= 1
    /\ ~launched => closeCount = 0
    /\ (pc = "done" /\ launched) => closeCount = 1
    /\ (pc \notin {"closing", "done"}) => closeCount = 0

\* C2 witness: the consumer called return() after the first emitted Resource,
\* the run has ended and the browser was closed once.
Wit_C2_ReturnAfterFirst ==
    /\ pc = "done"
    /\ launched
    /\ consumer = "returned"
    /\ Len(emitted) = 1
    /\ closeCount = 1

\* C3: when navigation yields no response or a failing status, the run ends
\* with nothing emitted, the browser released, and an error whose message
\* contains the target URL and, when there was a response, its status.
Inv_C3_NavigationFailureIsFatal ==
    (pc = "done" /\ NavigationFailed) =>
        /\ emitted = <<>>
        /\ closeCount = 1
        /\ outcome.state = "error"
        /\ Includes(outcome.error.message, TargetUrl)
        /\ navResult.kind = "response" =>
               Includes(outcome.error.message, Decimal(navResult.status))

\* C4: without options.links no Resource of type link is emitted; with it,
\* once a link has been emitted no Resource of another type follows.
Thm_C4_LinksLast ==
    /\ ~optLinks => \A k \in 1..Len(emitted) : emitted[k].type # "link"
    /\ \A i, j \in 1..Len(emitted) :
          (i < j /\ emitted[i].type = "link") => emitted[j].type = "link"

\* C4 witness: a link was emitted after a Resource of another type, and a
\* classified response that arrived later waits in the queue, not emitted.
Wit_C4_LinkAfterNetwork ==
    /\ optLinks
    /\ \E i, j \in 1..Len(emitted) :
          i < j /\ emitted[i].type # "link" /\ emitted[j].type = "link"
    /\ Len(queue) > qi

\* C5: no emitted Resource has a url that starts with data:
Inv_C5_NoDataUrls ==
    \A k \in 1..Len(emitted) : ~StartsWith(emitted[k].url, DataScheme)

\* C6: when the catch block has received an error, the run ends, after the
\* one call of browser.close(), by raising that very error: neither a failure
\* of the close nor anything else replaces or swallows it.
Inv_C6_OriginalErrorReraised ==
    (pc = "done" /\ launched /\ caughtError # UndefinedValue) =>
        /\ closeCount = 1
        /\ outcome = Failed(caughtError)

\* The classified, first-seen responses of a history of arrivals, in order.
RECURSIVE FirstSeen(_, _)
FirstSeen(arr, urls) ==
    IF arr = <<>> THEN <<>>
    ELSE LET r == Head(arr).response
             t == mapResourceType(r, TargetUrl)
         IN  IF t = Null \/ r.url \in urls
             THEN FirstSeen(Tail(arr), urls)
             ELSE <<Resource(t, r.url)>> \o FirstSeen(Tail(arr), urls \cup {r.url})

\* C7: in the network-observed form the observer is registered whenever
\* navigation has begun, and the Resources emitted from the network are, in
\* order, the first of the classified first-seen responses in their order of
\* arrival: none is emitted before one that arrived earlier.
Thm_C7_ArrivalOrder ==
    variant = "network" =>
        /\ navStarted => observer
        /\ IsPrefix(NonLinks(emitted), FirstSeen(arrived, {}))

\* C7 witness: two Resources were emitted from the network, the later one for
\* a response that first arrived while the generator was suspended at a yield
\* of the queue loop, the consumer holding an earlier Resource.
Wit_C7_ArrivedWhilePulling ==
    /\ variant = "network"
    /\ Len(NonLinks(emitted)) >= 2
    /\ \E k \in 1..Len(arrived) :
          /\ arrived[k].at = "yieldQ"
          /\ \A m \in 1..(k - 1) : arrived[m].response.url # arrived[k].response.url
          /\ \E j \in 2..Len(emitted) :
                /\ emitted[j].type # "link"
                /\ emitted[j].url = arrived[k].response.url

\* The classification table of the network-observed form: the first row that
\* applies decides, and a data: URL is dropped whatever the rows say.
ClassificationTable(r) ==
    LET ct == IF ContentTypeHeader \in DOMAIN r.headers
              THEN r.headers[ContentTypeHeader] ELSE <<>>
        rows == << <<r.type = "stylesheet", "stylesheet">>,
                   <<r.type = "script", "script">>,
                   <<r.type = "image" /\ MatchesFavicon(r.url), "favicon">>,
                   <<r.type = "image", "image">>,
                   <<r.type = "media" /\ StartsWith(ct, AudioPrefix), "audio">>,
                   <<r.type = "media" /\ StartsWith(ct, VideoPrefix), "video">>,
                   <<r.type = "font", "font">>,
                   <<r.type = "manifest", "manifest">>,
                   <<r.type = "document" /\ StartsWith(ct, SvgPrefix), "image">>,
                   <<r.type = "document" /\ r.frame = "child", "iframe">>,
                   <<r.type = "other" /\ (Includes(ct, PdfType) \/ Includes(ct, OctetType)),
                     "object">> >>
        hits == {k \in 1..Len(rows) : rows[k][1]}
    IN  IF StartsWith(r.url, DataScheme) THEN Null
        ELSE IF hits = {} THEN Null
        ELSE rows[CHOOSE k \in hits : \A m \in hits : k <= m][2]

\* C8: mapResourceType returns what the classification table gives, for every
\* request category, content-type, URL and frame.
Thm_C8_ClassificationTable ==
    (variant = "map" /\ pc = "mapped") => mapOut = ClassificationTable(mapIn)

\* C8 witness: an SVG document of a nested frame is an image, not an iframe.
Wit_C8_SvgInNestedFrame ==
    /\ variant = "map"
    /\ pc = "mapped"
    /\ mapIn.type = "document"
    /\ mapIn.frame = "child"
    /\ StartsWith(HeaderOrEmpty(mapIn), SvgPrefix)
    /\ ~StartsWith(mapIn.url, DataScheme)
    /\ mapOut = "image"

\* C9: a run of the DOM-query form that met no launch, page, navigation or
\* evaluation failure of the browser and was consumed to its end completes
\* normally: what is malformed in the document is skipped.
Inv_C9_MalformedItemsSkipped ==
    (/\ variant = "dom"
     /\ pc = "done"
     /\ consumer = "pulling"
     /\ faults \cap {"launch", "newPage", "navigation", "goto", "eval", "close"} = {})
        => outcome = Done

\* C10: in a run of the network-observed form that completed normally and was
\* consumed to its end, every url the observer added to the seen-set was
\* emitted exactly once.  Stated for the responses that arrived before the
\* release of the browser began: a response that arrives while
\* browser.close() is pending is left aside.
Inv_C10_SeenIsEmitted ==
    (/\ variant = "network"
     /\ pc = "done"
     /\ outcome = Done
     /\ consumer = "pulling")
        => \A k \in 1..Len(arrived) :
               (/\ arrived[k].at # "closing"
                /\ mapResourceType(arrived[k].response, TargetUrl) # Null)
                   => /\ arrived[k].response.url \in seen
                      /\ Cardinality(EmittedAt(arrived[k].response.url)) = 1

====
